---------------------------- MODULE Spec2Model ----------------------------
(***************************************************************************)
(* The extraction pipeline of app.py: load_data (walk the documents, carry *)
(* the date/shift context, filter, explode by pump, merge) followed by the *)
(* failure tagging of the merged table.                                    *)
(*                                                                         *)
(* A Python string is a sequence of one-character strings, so that the     *)
(* regular expressions, str.lower/upper/strip/replace and re.sub are       *)
(* computed character by character as the code computes them.              *)
(***************************************************************************)
EXTENDS Integers, Sequences, FiniteSets

(***************************************************************************)
(* Bounds of the model                                                     *)
(***************************************************************************)
\* .docx entries os.listdir may return
MaxFiles == 2
\* records appended to all_records over the whole run
MaxBlocks == 3

(***************************************************************************)
(* Characters                                                              *)
(***************************************************************************)
LowerLetters ==
  <<"a","b","c","d","e","f","g","h","i","j","k","l","m",
    "n","o","p","q","r","s","t","u","v","w","x","y","z">>
UpperLetters ==
  <<"A","B","C","D","E","F","G","H","I","J","K","L","M",
    "N","O","P","Q","R","S","T","U","V","W","X","Y","Z">>
Digits == <<"0","1","2","3","4","5","6","7","8","9">>

Range(s) == { s[i] : i \in 1..Len(s) }

DigitSet == Range(Digits)
LetterSet == Range(LowerLetters) \cup Range(UpperLetters)

IsDigit(c) == c \in DigitSet
IsLetter(c) == c \in LetterSet
\* \s of the re module, over the characters that occur in the inputs
IsSpace(c) == c \in {" ", "\t"}
\* \w of the re module: what \b separates from the rest
IsWord(c) == c \in LetterSet \/ c \in DigitSet \/ c = "_"

IndexIn(s, c) == CHOOSE i \in 1..Len(s) : s[i] = c
DigitVal(c) == IndexIn(Digits, c) - 1

\* str.lower and str.upper on one character
LowerOf == [c \in Range(UpperLetters) |-> LowerLetters[IndexIn(UpperLetters, c)]]
UpperOf == [c \in Range(LowerLetters) |-> UpperLetters[IndexIn(LowerLetters, c)]]
LowerChar(c) == IF c \in DOMAIN LowerOf THEN LowerOf[c] ELSE c
UpperChar(c) == IF c \in DOMAIN UpperOf THEN UpperOf[c] ELSE c

Lower(t) == [i \in 1..Len(t) |-> LowerChar(t[i])]
Upper(t) == [i \in 1..Len(t) |-> UpperChar(t[i])]

Min(S) == CHOOSE x \in S : \A y \in S : x <= y
Max(S) == CHOOSE x \in S : \A y \in S : x >= y

\* Python's None, where the code holds either None or a string
None == <<"None">>

\* `lit in t` for strings: lit occurs in t as a substring
Contains(t, lit) ==
  \E i \in 1..(Len(t) - Len(lit) + 1) : \A k \in 1..Len(lit) : t[i + k - 1] = lit[k]

\* str.strip(): leading and trailing whitespace removed
Strip(t) ==
  LET keep == { i \in 1..Len(t) : ~IsSpace(t[i]) }
  IN  IF keep = {} THEN <<>> ELSE SubSeq(t, Min(keep), Max(keep))

\* sep.join(parts)
RECURSIVE Join(_, _)
Join(parts, sep) ==
  IF parts = <<>> THEN <<>>
  ELSE IF Len(parts) = 1 THEN parts[1]
  ELSE parts[1] \o sep \o Join(Tail(parts), sep)

(***************************************************************************)
(* The three patterns (re.IGNORECASE)                                      *)
(***************************************************************************)
\* a literal of the pattern, lower-case, matched at position i ignoring case
MatchLit(t, i, lit) ==
  /\ i >= 1
  /\ i + Len(lit) - 1 <= Len(t)
  /\ \A k \in 1..Len(lit) : LowerChar(t[i + k - 1]) = lit[k]

\* \s* from position i: the position after the whitespace run
SkipSpaces(t, i) ==
  CHOOSE j \in i..(Len(t) + 1) :
    /\ \A k \in i..(j - 1) : IsSpace(t[k])
    /\ j = Len(t) + 1 \/ ~IsSpace(t[j])

\* \s*[:\-]?\s* from position i: the position after the separator
AfterLabel(t, i) ==
  LET a == SkipSpaces(t, i)
      b == IF a <= Len(t) /\ t[a] \in {":", "-"} THEN a + 1 ELSE a
  IN  SkipSpaces(t, b)

\* the digits at position i, at most max of them (a greedy \d{1,max})
DigitRun(t, i, max) ==
  CHOOSE n \in 0..max :
    /\ \A k \in 0..(n - 1) : i + k <= Len(t) /\ IsDigit(t[i + k])
    /\ n = max \/ i + n > Len(t) \/ ~IsDigit(t[i + n])

IsDateSep(t, i) == i <= Len(t) /\ t[i] \in {"-", "/"}

\* (\d{1,2}[-/]\d{1,2}[-/]\d{4}) at position j: the captured text, or None.
\* Giving a digit back never helps: the next character is then a digit, not
\* a separator.
DateCaptureAt(t, j) ==
  LET n1 == DigitRun(t, j, 2)
      p2 == j + n1 + 1
      n2 == DigitRun(t, p2, 2)
      p3 == p2 + n2 + 1
  IN  IF /\ n1 >= 1 /\ IsDateSep(t, j + n1)
         /\ n2 >= 1 /\ IsDateSep(t, p2 + n2)
         /\ DigitRun(t, p3, 4) = 4
      THEN SubSeq(t, j, p3 + 3)
      ELSE None

\* re.search(DATE_REGEX, text, re.IGNORECASE): group(1) of the leftmost
\* match, or None
DATE_REGEX_search(t) ==
  LET lit == <<"d","a","t","e">>
      at(i) == DateCaptureAt(t, AfterLabel(t, i + Len(lit)))
      starts == { i \in 1..Len(t) : MatchLit(t, i, lit) /\ at(i) # None }
  IN  IF starts = {} THEN None ELSE at(Min(starts))

\* (day[s]?|night[s]?) at position j: the captured text, or None
ShiftCaptureAt(t, j) ==
  LET day == <<"d","a","y">>
      night == <<"n","i","g","h","t">>
      word == IF MatchLit(t, j, day) THEN day
              ELSE IF MatchLit(t, j, night) THEN night
              ELSE <<>>
      e == j + Len(word)
  IN  IF word = <<>> THEN None
      ELSE IF MatchLit(t, e, <<"s">>) THEN SubSeq(t, j, e)
      ELSE SubSeq(t, j, e - 1)

\* re.search(SHIFT_REGEX, text, re.IGNORECASE): group(1) of the leftmost
\* match, or None
SHIFT_REGEX_search(t) ==
  LET lit == <<"s","h","i","f","t">>
      at(i) == ShiftCaptureAt(t, AfterLabel(t, i + Len(lit)))
      starts == { i \in 1..Len(t) : MatchLit(t, i, lit) /\ at(i) # None }
  IN  IF starts = {} THEN None ELSE at(Min(starts))

\* \b at the gap before position i (between t[i-1] and t[i])
WordBoundary(t, i) ==
  LET before == i >= 2 /\ i - 1 <= Len(t) /\ IsWord(t[i - 1])
      after  == i >= 1 /\ i <= Len(t) /\ IsWord(t[i])
  IN  before # after

\* the digits from position i on (a greedy \d+)
AllDigits(t, i) ==
  CHOOSE n \in 0..(Len(t) + 1) :
    /\ \A k \in 0..(n - 1) : i + k <= Len(t) /\ IsDigit(t[i + k])
    /\ i + n > Len(t) \/ ~IsDigit(t[i + n])

\* \bP[- ]?\d+(?:[- ]?[A-Z])?\b at position i: the last position of the
\* match, or 0.  The alternatives are tried in the order the backtracking
\* matcher tries them: suffix after a separator, suffix alone, no suffix.
\* A shorter \d+ never matches: what follows it is a digit, which is
\* neither a suffix nor a word boundary.
PumpMatchEnd(t, i) ==
  LET sepP == i + 1 <= Len(t) /\ t[i + 1] \in {"-", " "}
      try(d) ==
        LET n == AllDigits(t, d)
            j == d + n
        IN  IF n = 0 THEN 0
            ELSE IF /\ j + 1 <= Len(t) /\ t[j] \in {"-", " "}
                    /\ IsLetter(t[j + 1]) /\ WordBoundary(t, j + 2)
                 THEN j + 1
            ELSE IF j <= Len(t) /\ IsLetter(t[j]) /\ WordBoundary(t, j + 1)
                 THEN j
            ELSE IF WordBoundary(t, j) THEN j - 1
            ELSE 0
      withSep == IF sepP THEN try(i + 2) ELSE 0
  IN  IF ~(MatchLit(t, i, <<"p">>) /\ WordBoundary(t, i)) THEN 0
      ELSE IF withSep # 0 THEN withSep
      ELSE try(i + 1)

\* re.findall(PUMP_REGEX, text, re.IGNORECASE): the matches, left to right,
\* none overlapping
RECURSIVE FindAllFrom(_, _)
FindAllFrom(t, pos) ==
  LET starts == { i \in pos..Len(t) : PumpMatchEnd(t, i) # 0 }
  IN  IF starts = {} THEN <<>>
      ELSE LET i == Min(starts)
               e == PumpMatchEnd(t, i)
           IN  <<SubSeq(t, i, e)>> \o FindAllFrom(t, e + 1)

PUMP_REGEX_findall(t) == FindAllFrom(t, 1)

(***************************************************************************)
(* HELPERS                                                                 *)
(***************************************************************************)
Day == <<"D","a","y">>
Night == <<"N","i","g","h","t">>

normalize_shift(shift) ==
  LET s == Lower(shift)
  IN  IF Contains(s, <<"d","a","y">>) THEN Day
      ELSE IF Contains(s, <<"n","i","g","h","t">>) THEN Night
      ELSE None

normalize_pump(pump) ==
  SelectSeq(Upper(pump), LAMBDA c : c \notin {"-", " "})

\* re.sub(r"\s+", " ", s): every whitespace run becomes one space
CollapseSpaces(s) ==
  LET withPrev == [i \in 1..Len(s) |-> <<s[i], IF i = 1 THEN "" ELSE s[i - 1]>>]
      kept == SelectSeq(withPrev, LAMBDA x : ~IsSpace(x[1]) \/ ~IsSpace(x[2]))
  IN  [k \in 1..Len(kept) |-> IF IsSpace(kept[k][1]) THEN " " ELSE kept[k][1]]

normalize_text(text) ==
  IF text = None THEN <<>> ELSE CollapseSpaces(Lower(text))


(***************************************************************************)
(* pd.to_datetime(raw_df["date"], errors="coerce") on the captures of      *)
(* DATE_REGEX: one or two digits, a separator, one or two digits, a        *)
(* separator, four digits.                                                 *)
(***************************************************************************)
\* the number written by the n digits of s from position i
Number(s, i, n) ==
  LET F[k \in 0..n] == IF k = 0 THEN 0 ELSE 10 * F[k - 1] + DigitVal(s[i + k - 1])
  IN  F[n]

\* the fields of a capture: first number, separator, second number,
\* separator, year
Fields(s) ==
  LET n1 == DigitRun(s, 1, 2)
      n2 == DigitRun(s, n1 + 2, 2)
  IN  [a |-> Number(s, 1, n1), sep1 |-> s[n1 + 1],
       b |-> Number(s, n1 + 2, n2), sep2 |-> s[n1 + n2 + 2],
       y |-> Number(s, n1 + n2 + 3, 4)]

IsLeap(y) == (y % 4 = 0 /\ y % 100 # 0) \/ y % 400 = 0

DaysInMonth(m, y) ==
  IF m = 2 THEN (IF IsLeap(y) THEN 29 ELSE 28)
  ELSE IF m \in {4, 6, 9, 11} THEN 30
  ELSE 31

NaT == [year |-> 0, month |-> 0, day |-> 0]

\* datetime(year, month, day), NaT where the constructor raises
Timestamp(y, m, d) ==
  IF m \in 1..12 /\ d >= 1 /\ d <= DaysInMonth(m, y)
  THEN [year |-> y, month |-> m, day |-> d]
  ELSE NaT

\* One element parsed on its own with dayfirst=False: the first number is
\* the month unless it exceeds 12, and then it is the day.  None and what
\* is no date become NaT (errors="coerce").
ParseElement(s) ==
  IF s = None THEN NaT
  ELSE LET f == Fields(s)
       IN  IF f.a > 12 THEN Timestamp(f.y, f.b, f.a)
           ELSE Timestamp(f.y, f.a, f.b)

\* The format pandas 2 infers from the first non-null element: the field
\* order its own parse of that element shows, with the element's
\* separators.  No format when that element does not parse.
GuessFormat(s) ==
  LET f == Fields(s)
  IN  [known |-> ParseElement(s) # NaT, dayfirst |-> f.a > 12,
       sep1 |-> f.sep1, sep2 |-> f.sep2]

\* strptime with an inferred format, NaT where the element does not match
Strptime(s, fmt) ==
  IF s = None THEN NaT
  ELSE LET f == Fields(s)
       IN  IF f.sep1 # fmt.sep1 \/ f.sep2 # fmt.sep2 THEN NaT
           ELSE IF fmt.dayfirst THEN Timestamp(f.y, f.b, f.a)
           ELSE Timestamp(f.y, f.a, f.b)

\* The two ways a pandas build converts the column: element by element
\* (pandas 1), or (pandas 2) with the format inferred from the first
\* non-null element and applied to all, falling back to element by element
\* when no format can be inferred.
DateParsers == {"elementwise", "inferred"}

to_datetime(column, parser) ==
  LET nonnull == { i \in 1..Len(column) : column[i] # None }
      fmt == GuessFormat(column[Min(nonnull)])
  IN  IF parser = "elementwise" \/ nonnull = {} \/ ~fmt.known
      THEN [i \in 1..Len(column) |-> ParseElement(column[i])]
      ELSE [i \in 1..Len(column) |-> Strptime(column[i], fmt)]

(***************************************************************************)
(* The documents the run may meet                                          *)
(***************************************************************************)
Paragraphs ==
  { <<"D","a","t","e",":"," ","1","2","-","0","5","-","2","0","2","4"," ",
      "S","h","i","f","t",":"," ","D","a","y"," ","P","-","1","2"," ",
      "m","e","c","h","a","n","i","c","a","l"," ","s","e","a","l"," ",
      "i","s","s","u","e">>,
    <<"S","H","I","F","T"," ","-"," ","n","i","g","h","t","s">>,
    <<"P","-","1","2","\t","P"," ","1","2"," "," ","L","o","w"," ",
      "P","r","e","s","s","u","r","e"," ","t","r","i","p">>,
    <<"D","a","t","e",":"," ","3","1","-","0","2","-","2","0","2","4">>,
    <<"D","a","t","e",":"," ","1","3","-","0","5","-","2","0","2","4"," ",
      "p","7"," ","o","k">>,
    <<" "," ">> }

\* table rows, each the texts of its cells
TableRows ==
  { << <<"P","-","7","A"," ">>, <<" ","c","a","v","i","t","a","t","i","o","n">> >> }

\* The catalogue is small and a run meets its texts again and again: what
\* strip, the join of a row's cells and the three patterns make of each text
\* is computed once.

\* block.text.strip()
Stripped == [p \in Paragraphs |-> Strip(p)]

\* " ".join(cell.text.strip() for cell in row.cells)
RowText == [cells \in TableRows |->
              Join([i \in 1..Len(cells) |-> Strip(cells[i])], <<" ">>)]

\* the texts a record can hold
BlockTexts ==
  ({ Stripped[p] : p \in Paragraphs } \ {<<>>}) \cup { RowText[c] : c \in TableRows }

\* re.search(DATE_REGEX, text, re.IGNORECASE), group 1 or None
DateFound == [t \in BlockTexts |-> DATE_REGEX_search(t)]

\* re.search(SHIFT_REGEX, text, re.IGNORECASE), group 1 or None
ShiftFound == [t \in BlockTexts |-> SHIFT_REGEX_search(t)]

\* re.findall(PUMP_REGEX, text, re.IGNORECASE)
PumpsFound == [t \in BlockTexts |-> PUMP_REGEX_findall(t)]

(***************************************************************************)
(* State                                                                   *)
(***************************************************************************)
VARIABLES
  pc,             \* where the script is
  err,            \* the exception that ended the run, "" while there is none
  listed,         \* .docx entries of os.listdir(FOLDER_PATH) taken so far
  file,           \* the .docx entry whose document is being walked
  current_date,   \* load_data's current_date
  current_shift,  \* load_data's current_shift
  all_records,    \* load_data's all_records
  origin,         \* history: origin[i] is the entry all_records[i] came from
  raw_df,         \* raw_df after to_datetime and dropna; index = row label
  pump_records,   \* load_data's pump_records; row = history, label of the raw_df row
  pump_df,        \* what load_data returns; rows = history, labels merged
  df              \* the tagged table

vars == <<pc, err, listed, file, current_date, current_shift, all_records,
          origin, raw_df, pump_records, pump_df, df>>

Init ==
  /\ pc = "listing"
  /\ err = ""
  /\ listed = 0
  /\ file = 0
  /\ current_date = None
  /\ current_shift = None
  /\ all_records = <<>>
  /\ origin = <<>>
  /\ raw_df = <<>>
  /\ pump_records = <<>>
  /\ pump_df = <<>>
  /\ df = <<>>

(***************************************************************************)
(* LOAD DATA: the walk                                                     *)
(***************************************************************************)
\* the slip of taking the context over from the document before
ResetContext_Carried(ctx) == ctx

\* current_date, current_shift = None, None
ResetContext(ctx) == [date |-> None, shift |-> None]

\* the slip of assigning the search result whether or not it matched
UpdateDate_Unguarded(cur, text) == DateFound[text]

\* d = re.search(DATE_REGEX, ...); if d: current_date = d.group(1)
UpdateDate(cur, text) ==
  LET d == DateFound[text]
  IN  IF d # None THEN d ELSE cur

\* s = re.search(SHIFT_REGEX, ...); if s: current_shift = normalize_shift(s.group(1))
UpdateShift(cur, text) ==
  LET s == ShiftFound[text]
  IN  IF s # None THEN normalize_shift(s) ELSE cur

\* the body shared by the paragraph and the table-row branch
Record(text) ==
  /\ current_date' = UpdateDate(current_date, text)
  /\ current_shift' = UpdateShift(current_shift, text)
  /\ all_records' = Append(all_records,
                           [date |-> current_date', shift |-> current_shift',
                            raw_text |-> text])
  /\ origin' = Append(origin, file)

InListing == pc \in {"listing", "walking"}

\* an entry that does not end in .docx: continue
SkipFile ==
  /\ InListing
  /\ pc' = "listing"
  /\ UNCHANGED <<err, listed, file, current_date, current_shift, all_records, origin,
                 raw_df, pump_records, pump_df, df>>

\* doc = Document(...) succeeds; the context starts over
OpenDocument ==
  /\ InListing
  /\ listed < MaxFiles
  /\ listed' = listed + 1
  /\ file' = listed + 1
  /\ LET ctx == ResetContext([date |-> current_date, shift |-> current_shift])
     IN  current_date' = ctx.date /\ current_shift' = ctx.shift
  /\ pc' = "walking"
  /\ UNCHANGED <<err, all_records, origin, raw_df, pump_records, pump_df, df>>

\* doc = Document(...) raises on a file it cannot read; nothing catches it
OpenFails ==
  /\ InListing
  /\ listed < MaxFiles
  /\ listed' = listed + 1
  /\ pc' = "error"
  /\ err' = "PackageNotFoundError (line 108)"
  /\ UNCHANGED <<file, current_date, current_shift, all_records, origin,
                 raw_df, pump_records, pump_df, df>>

\* a CT_P block whose stripped text is empty: continue
EmptyParagraph ==
  /\ pc = "walking"
  /\ \E p \in Paragraphs : Stripped[p] = <<>>
  /\ UNCHANGED vars

\* a CT_P block with text
ParagraphBlock ==
  /\ pc = "walking"
  /\ Len(all_records) < MaxBlocks
  /\ \E p \in Paragraphs :
       /\ Stripped[p] # <<>>
       /\ Record(Stripped[p])
  /\ UNCHANGED <<pc, err, listed, file, raw_df, pump_records, pump_df, df>>

\* one row of a CT_Tbl block
TableRowBlock ==
  /\ pc = "walking"
  /\ Len(all_records) < MaxBlocks
  /\ \E cells \in TableRows : Record(RowText[cells])
  /\ UNCHANGED <<pc, err, listed, file, raw_df, pump_records, pump_df, df>>

\* os.listdir is exhausted
EndListing ==
  /\ InListing
  /\ pc' = "frame"
  /\ UNCHANGED <<err, listed, file, current_date, current_shift, all_records,
                 origin, raw_df, pump_records, pump_df, df>>

(***************************************************************************)
(* LOAD DATA: filter, explode, merge                                       *)
(***************************************************************************)
\* the slip of leaving "shift" out of the subset
KeepRow_DateOnly(date, shift) == date # NaT

\* raw_df.dropna(subset=["date", "shift", "raw_text"]): whether a row stays
KeepRow(date, shift) == date # NaT /\ shift # None

\* raw_df after lines 152-154, the rows keeping their labels
FilteredFrame(records, parser) ==
  LET dates == to_datetime([i \in 1..Len(records) |-> records[i].date], parser)
      kept == { i \in 1..Len(records) : KeepRow(dates[i], records[i].shift) }
      F[i \in 0..Len(records)] ==
        IF i = 0 THEN <<>>
        ELSE IF i \in kept
             THEN Append(F[i - 1], [index |-> i, date |-> dates[i],
                                    shift |-> records[i].shift,
                                    raw_text |-> records[i].raw_text])
        ELSE F[i - 1]
  IN  F[Len(records)]

\* pd.DataFrame([]) has no columns: raw_df["date"] raises
RawFrameKeyError ==
  /\ pc = "frame"
  /\ all_records = <<>>
  /\ pc' = "error"
  /\ err' = "KeyError (line 153)"
  /\ UNCHANGED <<listed, file, current_date, current_shift, all_records,
                 origin, raw_df, pump_records, pump_df, df>>

\* pumps = set(re.findall(PUMP_REGEX, row["raw_text"], re.IGNORECASE))
PumpSet(text) == Range(PumpsFound[text])

\* the orders in which a set may be iterated
Orders(S) ==
  { o \in [1..Cardinality(S) -> S] : \A x \in S : \E i \in 1..Cardinality(S) : o[i] = x }

\* the records one raw_df row appends, its pumps taken in the order o
RowRecords(row, o) ==
  [k \in 1..Len(o) |-> [date |-> row.date, shift |-> row.shift,
                        pump |-> normalize_pump(o[k]),
                        raw_text |-> row.raw_text, row |-> row.index]]

\* every pump_records the loop over raw_df.iterrows() may build
RECURSIVE Explosions(_)
Explosions(rows) ==
  IF rows = <<>> THEN {<<>>}
  ELSE { RowRecords(rows[1], o) \o rest :
           o \in Orders(PumpSet(rows[1].raw_text)), rest \in Explosions(Tail(rows)) }

\* lines 152-167: raw_df and pump_records, as one pandas build and one
\* iteration order of the sets make them
Explode ==
  /\ pc = "frame"
  /\ all_records # <<>>
  /\ \E parser \in DateParsers :
       /\ raw_df' = FilteredFrame(all_records, parser)
       /\ \E pr \in Explosions(raw_df') : pump_records' = pr

\* the order of code points, over the characters of a normalized pump id
CodePoint(c) == IndexIn(Digits \o UpperLetters, c)

\* a < b for strings
RECURSIVE StrLess(_, _)
StrLess(a, b) ==
  IF b = <<>> THEN FALSE
  ELSE IF a = <<>> THEN TRUE
  ELSE IF a[1] # b[1] THEN CodePoint(a[1]) < CodePoint(b[1])
  ELSE StrLess(Tail(a), Tail(b))

DateLess(a, b) ==
  \/ a.year < b.year
  \/ a.year = b.year /\ a.month < b.month
  \/ a.year = b.year /\ a.month = b.month /\ a.day < b.day

Key(r) == [date |-> r.date, shift |-> r.shift, pump |-> r.pump]

\* the order groupby (sort=True) puts the group keys in
KeyLess(a, b) ==
  \/ DateLess(a.date, b.date)
  \/ a.date = b.date /\ StrLess(a.shift, b.shift)
  \/ a.date = b.date /\ a.shift = b.shift /\ StrLess(a.pump, b.pump)

RECURSIVE SortedKeys(_)
SortedKeys(K) ==
  IF K = {} THEN <<>>
  ELSE LET m == CHOOSE k \in K : \A j \in K \ {k} : KeyLess(k, j)
       IN  <<m>> \o SortedKeys(K \ {m})

\* the separator of the aggregation
Bar == <<" ", "|", " ">>

\* the text stored for a group: the joined text, then normalize_text
StoredText(joined) == normalize_text(joined)

\* groupby(["date", "shift", "pump"], as_index=False).agg({"raw_text":
\* " | ".join}), then raw_text.apply(normalize_text)
Merged(records) ==
  LET keys == SortedKeys({ Key(records[i]) : i \in 1..Len(records) })
      group(k) == SelectSeq(records, LAMBDA r : Key(r) = k)
      texts(g) == [i \in 1..Len(g) |-> g[i].raw_text]
  IN  [n \in 1..Len(keys) |->
         LET g == group(keys[n])
         IN  [date |-> keys[n].date, shift |-> keys[n].shift,
              pump |-> keys[n].pump,
              raw_text |-> StoredText(Join(texts(g), Bar)),
              rows |-> [i \in 1..Len(g) |-> g[i].row]]]

\* the rest of load_data when no pump record was built: pd.DataFrame([])
\* has no columns and groupby(["date", "shift", "pump"]) raises
GroupKeyError ==
  /\ Explode
  /\ pump_records' = <<>>
  /\ pc' = "error"
  /\ err' = "KeyError (line 171)"
  /\ UNCHANGED <<listed, file, current_date, current_shift, all_records,
                 origin, pump_df, df>>

\* the rest of load_data: pump_df is built and returned
LoadReturns ==
  /\ Explode
  /\ pump_records' # <<>>
  /\ pump_df' = Merged(pump_records')
  /\ pc' = "tag"
  /\ UNCHANGED <<err, listed, file, current_date, current_shift, all_records,
                 origin, df>>

(***************************************************************************)
(* TAGGING                                                                 *)
(***************************************************************************)
FAILURE_TYPES ==
  << [name |-> "Seal_Issue",
      words |-> << <<"s","e","a","l">>,
                   <<"m","e","c","h","a","n","i","c","a","l"," ","s","e","a","l">> >>],
     [name |-> "Low_Level",
      words |-> << <<"l","o","w"," ","l","e","v","e","l">> >>],
     [name |-> "Pressure_Issue",
      words |-> << <<"l","o","w"," ","p","r","e","s","s","u","r","e">> >>],
     [name |-> "Trip_Issue",
      words |-> << <<"t","r","i","p">>, <<"t","r","i","p","p","e","d">> >>],
     [name |-> "Flow_Issue",
      words |-> << <<"m","i","n","-","f","l","o","w">>,
                   <<"c","a","v","i","t","a","t","i","o","n">>,
                   <<"k","i","c","k","b","a","c","k">> >>] >>

Words(name) ==
  LET i == CHOOSE j \in 1..Len(FAILURE_TYPES) : FAILURE_TYPES[j].name = name
  IN  FAILURE_TYPES[i].words

\* "|".join(words)
Pattern(words) == Join(words, <<"|">>)

\* the alternatives of a pattern a|b|c whose branches are literals
RECURSIVE Alternatives(_)
Alternatives(pat) ==
  LET bars == { i \in 1..Len(pat) : pat[i] = "|" }
  IN  IF bars = {} THEN {pat}
      ELSE {SubSeq(pat, 1, Min(bars) - 1)}
             \cup Alternatives(SubSeq(pat, Min(bars) + 1, Len(pat)))

\* the slip of searching for the first keyword only
str_contains_FirstWord(text, pat) ==
  LET bars == { i \in 1..Len(pat) : pat[i] = "|" }
      first == IF bars = {} THEN pat ELSE SubSeq(pat, 1, Min(bars) - 1)
  IN  IF Contains(text, first) THEN 1 ELSE 0

\* Series.str.contains(pat) on one value (a regular expression search,
\* case-sensitive), then astype(int)
str_contains(text, pat) ==
  IF \E alt \in Alternatives(pat) : Contains(text, alt) THEN 1 ELSE 0

\* df[list(FAILURE_TYPES.keys())].sum(axis=1) on one row
TotalFailure(r) ==
  r.Seal_Issue + r.Low_Level + r.Pressure_Issue + r.Trip_Issue + r.Flow_Issue

\* one row of df after lines 193-197; month stands for strftime("%B-%Y")
Tagged(r) ==
  LET ind(name) == str_contains(r.raw_text, Pattern(Words(name)))
      t == [date |-> r.date, shift |-> r.shift, pump |-> r.pump,
            raw_text |-> r.raw_text,
            Seal_Issue |-> ind("Seal_Issue"), Low_Level |-> ind("Low_Level"),
            Pressure_Issue |-> ind("Pressure_Issue"),
            Trip_Issue |-> ind("Trip_Issue"), Flow_Issue |-> ind("Flow_Issue")]
  IN  [date |-> t.date, shift |-> t.shift, pump |-> t.pump,
       raw_text |-> t.raw_text,
       Seal_Issue |-> t.Seal_Issue, Low_Level |-> t.Low_Level,
       Pressure_Issue |-> t.Pressure_Issue, Trip_Issue |-> t.Trip_Issue,
       Flow_Issue |-> t.Flow_Issue,
       Total_Failure |-> TotalFailure(t),
       month |-> [month |-> t.date.month, year |-> t.date.year]]

Tag ==
  /\ pc = "tag"
  /\ df' = [n \in 1..Len(pump_df) |-> Tagged(pump_df[n])]
  /\ pc' = "done"
  /\ UNCHANGED <<err, listed, file, current_date, current_shift, all_records,
                 origin, raw_df, pump_records, pump_df>>

(***************************************************************************)
(* The run                                                                 *)
(***************************************************************************)
Next ==
  \/ SkipFile
  \/ OpenDocument
  \/ OpenFails
  \/ EmptyParagraph
  \/ ParagraphBlock
  \/ TableRowBlock
  \/ EndListing
  \/ RawFrameKeyError
  \/ GroupKeyError
  \/ LoadReturns
  \/ Tag

Spec == Init /\ [][Next]_vars

(***************************************************************************)
(* Vocabulary of the properties                                            *)
(***************************************************************************)
Loaded == pc \in {"tag", "done"}
\* raw_df and pump_records have been built
Exploded == Loaded \/ err = "KeyError (line 171)"

Blocks == 1..Len(all_records)
RawText(i) == all_records[i].raw_text

\* what the patterns find in each text a record can hold: the shift named
\* and the normalized pump ids
ShiftIn == [t \in BlockTexts |->
              IF ShiftFound[t] = None THEN None
              ELSE normalize_shift(ShiftFound[t])]
PumpsIn == [t \in BlockTexts |->
              { normalize_pump(p) : p \in Range(PumpsFound[t]) }]

DateOf(j) == DateFound[RawText(j)]
ShiftOf(j) == ShiftIn[RawText(j)]

\* the blocks of block i's document, up to and including i, that match the
\* date pattern, and those that match the shift pattern
DateMatches(i) ==
  { j \in 1..i : origin[j] = origin[i] /\ DateOf(j) # None }
ShiftMatches(i) ==
  { j \in 1..i : origin[j] = origin[i] /\ ShiftOf(j) # None }

UnknownContext(i) == all_records[i].date = None \/ all_records[i].shift = None

\* C1: every block's record carries the date captured by the latest block
\* of its document, at or before it, that matches the date pattern, and the
\* shift of the latest one that matches the shift pattern; a block without a
\* match changes neither, so a field once set is not unknown again later in
\* the document.
C1_ContextPersists ==
  \A i \in Blocks :
    /\ DateMatches(i) # {} =>
         /\ all_records[i].date = DateOf(Max(DateMatches(i)))
         /\ all_records[i].date # None
    /\ ShiftMatches(i) # {} =>
         /\ all_records[i].shift = ShiftOf(Max(ShiftMatches(i)))
         /\ all_records[i].shift # None

\* a block that matches neither pattern carries the date and the shift that
\* earlier blocks of its document set
C1_Witness ==
  \E i \in Blocks :
    /\ DateMatches(i) # {} /\ i \notin DateMatches(i)
    /\ ShiftMatches(i) # {} /\ i \notin ShiftMatches(i)
    /\ all_records[i].date # None /\ all_records[i].shift # None

\* C2: the context is unknown when a document starts; a block before its
\* document's first date (shift) match is recorded with unknown date
\* (shift), whatever an earlier document set; every row returned draws its
\* date and shift from matches in the document of the blocks merged in it.
C2_ContextResets ==
  /\ (pc = "walking" /\ file \notin Range(origin)) =>
       current_date = None /\ current_shift = None
  /\ \A i \in Blocks :
       /\ DateMatches(i) = {} => all_records[i].date = None
       /\ ShiftMatches(i) = {} => all_records[i].shift = None
  /\ Loaded =>
       \A n \in 1..Len(pump_df) : \A i \in Range(pump_df[n].rows) :
         /\ DateMatches(i) # {} /\ ShiftMatches(i) # {}
         /\ pump_df[n].shift = ShiftOf(Max(ShiftMatches(i)))
         /\ LET f == Fields(DateOf(Max(DateMatches(i))))
            IN  pump_df[n].date \in {Timestamp(f.y, f.a, f.b), Timestamp(f.y, f.b, f.a)}

\* a block of a later document is recorded without date and shift although
\* an earlier document had set both
C2_Witness ==
  \E i, j \in Blocks :
    /\ origin[j] < origin[i]
    /\ all_records[j].date # None /\ all_records[j].shift # None
    /\ all_records[i].date = None /\ all_records[i].shift = None

\* C3: each key has one row, whose raw_text is the unmodified texts of the
\* blocks that resolved to the key, in the order met, joined by " | ".
C3_MergeUnmodified ==
  Loaded =>
    /\ \A m, n \in 1..Len(pump_df) : Key(pump_df[m]) = Key(pump_df[n]) => m = n
    /\ \A n \in 1..Len(pump_df) :
         LET k == Key(pump_df[n])
             resolved == SelectSeq(raw_df, LAMBDA r :
                           /\ r.date = k.date /\ r.shift = k.shift
                           /\ k.pump \in PumpsIn[r.raw_text])
         IN  pump_df[n].raw_text =
               Join([i \in 1..Len(resolved) |-> resolved[i].raw_text], Bar)

\* C4: every row returned has a parsed date and the shift Day or Night; a
\* block whose context date or shift is unknown reaches no row; the filter
\* itself raises nothing (line 153 fails only on a frame without records).
C4_FilteringLaw ==
  /\ Loaded =>
       \A n \in 1..Len(pump_df) :
         pump_df[n].date # NaT /\ pump_df[n].shift \in {Day, Night}
  /\ pc = "done" =>
       \A n \in 1..Len(df) : df[n].date # NaT /\ df[n].shift \in {Day, Night}
  /\ \A i \in Blocks : UnknownContext(i) =>
       /\ \A n \in 1..Len(raw_df) : raw_df[n].index # i
       /\ \A n \in 1..Len(pump_records) : pump_records[n].row # i
       /\ \A n \in 1..Len(pump_df) : i \notin Range(pump_df[n].rows)
  /\ err = "KeyError (line 153)" => all_records = <<>>

\* the run ends with a table although a block that names a pump was dropped
\* for its unknown context
C4_Witness ==
  /\ pc = "done"
  /\ Len(df) >= 1
  /\ \E i \in Blocks : UnknownContext(i) /\ PumpsIn[RawText(i)] # {}

\* the capture read day first, NaT where that is no calendar date
DayFirst(capture) ==
  LET f == Fields(capture)
  IN  Timestamp(f.y, f.b, f.a)

\* C5: a capture D-M-YYYY whose D and M are a valid day and month resolves
\* to day D of month M.
C5_DayFirst ==
  Exploded =>
    \A i \in Blocks :
      (~UnknownContext(i) /\ DayFirst(all_records[i].date) # NaT) =>
        \E n \in 1..Len(raw_df) :
          raw_df[n].index = i /\ raw_df[n].date = DayFirst(all_records[i].date)

Categories == { FAILURE_TYPES[j].name : j \in 1..Len(FAILURE_TYPES) }

\* C6: an indicator is 1 exactly when the normalized raw_text contains one
\* of its category's keywords; Total_Failure is the number of indicators
\* set, between 0 and 5; every merged row is kept, matching or not.
C6_Tagging ==
  pc = "done" =>
    /\ Len(df) = Len(pump_df)
    /\ \A n \in 1..Len(df) :
         \A text \in {normalize_text(df[n].raw_text)} :
           \A hit \in {{ c \in Categories :
                          \E w \in Range(Words(c)) : Contains(text, w) }} :
             /\ Key(df[n]) = Key(pump_df[n])
             /\ \A c \in Categories : df[n][c] = IF c \in hit THEN 1 ELSE 0
             /\ df[n].Total_Failure = Cardinality(hit)
             /\ df[n].Total_Failure \in 0..5

\* one table holds a row without any keyword and a row in several categories
C6_Witness ==
  /\ pc = "done"
  /\ \E n \in 1..Len(df) : df[n].Total_Failure = 0
  /\ \E n \in 1..Len(df) : df[n].Total_Failure >= 2

\* the blocks of block i's document, up to i, whose capture is a date
ValidDateMatches(i) ==
  { j \in DateMatches(i) : ParseElement(DateOf(j)) # NaT }

\* C7: a capture that is no calendar date leaves the date context as it
\* was: every block carries the latest capture of its document that is a
\* date, or none.
C7_UnparsableIsNoMatch ==
  \A i \in Blocks :
    all_records[i].date =
      IF ValidDateMatches(i) = {} THEN None ELSE DateOf(Max(ValidDateMatches(i)))

\* C8: a document that cannot be opened does not end the run.
C8_UnreadableSkipped == err # "PackageNotFoundError (line 108)"

\* C9: a run without surviving records ends with an empty table, not with
\* an error.
C9_EmptyIsValid == err \notin {"KeyError (line 153)", "KeyError (line 171)"}

\* C10: a block contributes at most one PumpRecord per normalized pump id.
C10_OnePerPump ==
  Exploded =>
    \A m, n \in 1..Len(pump_records) :
      (pump_records[m].row = pump_records[n].row
         /\ pump_records[m].pump = pump_records[n].pump) => m = n

=============================================================================
